---- MODULE Spec2Model ----
(***************************************************************************)
(* Model of src/wrapper.c: the three exported wrappers                     *)
(* node_asn1_length_der, node_asn1_octet_der and node_asn1_bit_der, the    *)
(* caller-supplied memory they work on, and the libtasn1 routines they     *)
(* forward to (asn1_length_der, asn1_octet_der, asn1_bit_der).             *)
(*                                                                         *)
(* Memory.  A der pointer is an index into Bufs; der[b] is the DerSize     *)
(* bytes at that address.  A str pointer is the memory image img found at  *)
(* that address, of which only the first `size` bytes belong to the        *)
(* caller's buffer: the wrappers receive no buffer size, so a read at an   *)
(* index > size is an out-of-bounds read and yields whatever the image     *)
(* holds there (any byte).  str and der regions are disjoint.              *)
(*                                                                         *)
(* Integers.  unsigned long is ULongBytes bytes wide; a value of that type *)
(* is modelled as its little-endian byte tuple, so that the conversion of  *)
(* a negative argument wraps exactly as the build does.                    *)
(***************************************************************************)
EXTENDS Integers, Sequences, FiniteSets, TLC

\* ------------------------------------------------------------------ bounds
MaxLen == 300
MaxStrLen == 2
LongLen == 130
NBufs == 2
MaxCalls == 3
NThreads == 2

\* -------------------------------------------------------- program constants
\* sizeof(unsigned long) of the build (emscripten, wasm32).
ULongBytes == 4

Bufs == 1..NBufs
Threads == 1..NThreads
ImgLen == LongLen
DerSize == LongLen + ULongBytes + 2

SeqDerSize == ULongBytes + 2

ByteSamples == {0, 240, 255}
JunkSamples == {85, 170}

\* ----------------------------------------------------------------- helpers
RECURSIVE Pow256(_)
Pow256(i) == IF i = 0 THEN 1 ELSE 256 * Pow256(i - 1)

\* An int argument converted to unsigned long: two's complement, little-endian.
ToULong(n) == [i \in 1..ULongBytes |-> (n \div Pow256(i - 1)) % 256]

IsZero(u) == \A i \in 1..ULongBytes : u[i] = 0
Below128(u) == u[1] < 128 /\ \A i \in 2..ULongBytes : u[i] = 0
Shr8(u) == [i \in 1..ULongBytes |-> IF i < ULongBytes THEN u[i + 1] ELSE 0]

Reverse(s) == [i \in 1..Len(s) |-> s[Len(s) + 1 - i]]

\* A memory image of ImgLen bytes at a str pointer: the bytes p, then a
\* pattern that differs from byte to byte.
Image(p) == [i \in 1..ImgLen |-> IF i <= Len(p) THEN p[i] ELSE (7 * i) % 256]

\* memcpy/stores of `bytes` to the start of buffer d; the rest of memory is kept.
Store(m, d, bytes) ==
  [m EXCEPT ![d] = [i \in 1..Len(@) |-> IF i <= Len(bytes) THEN bytes[i] ELSE @[i]]]

\* ------------------------------------------------------- wrapped library
\* while (len) { temp[k++] = len & 0xFF; len = len >> 8; }
RECURSIVE LenLoop(_, _)
LenLoop(len, temp) ==
  IF IsZero(len) THEN temp ELSE LenLoop(Shr8(len), Append(temp, len[1]))

\* The bytes asn1_length_der produces for len: short form below 128, else
\* 0x80 | k and the k significant bytes, most significant first.
LengthBytes(len) ==
  IF Below128(len) THEN <<len[1]>>
  ELSE LET temp == LenLoop(len, <<>>)
           k == Len(temp)
       IN  <<128 + (k % 128)>> \o Reverse(temp)

asn1_length_der(m, len, d, der_len) ==
  [der |-> Store(m, d, LengthBytes(len)), der_len |-> Len(LengthBytes(len))]

\* Length prefix, then str_len bytes read from str.
OctetBytes(img, str_len) ==
  LengthBytes(ToULong(str_len)) \o [i \in 1..str_len |-> img[i]]

\* A negative str_len is declined: nothing is written, *der_len is left alone.
asn1_octet_der(m, img, str_len, d, der_len) ==
  IF str_len < 0 THEN [der |-> m, der_len |-> der_len]
  ELSE [der |-> Store(m, d, OctetBytes(img, str_len)),
        der_len |-> Len(OctetBytes(img, str_len))]

\* len_byte whole bytes, one more when bit_len & 7 is not 0.
BitByteCount(bit_len) ==
  IF bit_len % 8 = 0 THEN bit_len \div 8 ELSE (bit_len \div 8) + 1

BitPad(bit_len) == IF bit_len % 8 = 0 THEN 0 ELSE 8 - (bit_len % 8)

\* Length prefix of len_byte + 1, the pad count, then len_byte bytes read from str.
BitBytes(img, bit_len) ==
  LengthBytes(ToULong(BitByteCount(bit_len) + 1)) \o <<BitPad(bit_len)>>
    \o [i \in 1..BitByteCount(bit_len) |-> img[i]]

\* A negative bit_len is declined: nothing is written, *der_len is left alone.
asn1_bit_der(m, img, bit_len, d, der_len) ==
  IF bit_len < 0 THEN [der |-> m, der_len |-> der_len]
  ELSE [der |-> Store(m, d, BitBytes(img, bit_len)),
        der_len |-> Len(BitBytes(img, bit_len))]

\* ---------------------------------------------------- src/wrapper.c
\* Variants of the wrappers, each with one slip; used to show that the
\* properties below depend on the wrappers as written.
\* der_len handed over by value: the callee's result never reaches the return.
node_asn1_length_der_byvalue(m, len, d) ==
  LET der_len == 0
      r == asn1_length_der(m, ToULong(len), d, der_len)
  IN  [der |-> r.der, ret |-> der_len]

\* len declared unsigned short: the argument is cut to 16 bits.
node_asn1_length_der_narrow(m, len, d) ==
  LET der_len == 0
      r == asn1_length_der(m, ToULong(len % 65536), d, der_len)
  IN  [der |-> r.der, ret |-> r.der_len]

\* return str_len instead of der_len.
node_asn1_octet_der_retlen(m, img, str_len, d) ==
  LET der_len == 0
      r == asn1_octet_der(m, img, str_len, d, der_len)
  IN  [der |-> r.der, ret |-> str_len]

\* The encoding is built in one static buffer (buffer 1), not in der.
node_asn1_octet_der_static(m, img, str_len, d) ==
  LET der_len == 0
      r == asn1_octet_der(m, img, str_len, 1, der_len)
  IN  [der |-> r.der, ret |-> r.der_len]

\* der_len not initialised: it holds 1 when the callee leaves it alone.
node_asn1_octet_der_uninit(m, img, str_len, d) ==
  LET der_len == 1
      r == asn1_octet_der(m, img, str_len, d, der_len)
  IN  [der |-> r.der, ret |-> r.der_len]

\* Copied from the octet wrapper without renaming the callee.
node_asn1_bit_der_asoctet(m, img, bit_len, d) ==
  LET der_len == 0
      r == asn1_octet_der(m, img, bit_len, d, der_len)
  IN  [der |-> r.der, ret |-> r.der_len]

\* The encoding is built in one static buffer (buffer 1), not in der.
node_asn1_bit_der_static(m, img, bit_len, d) ==
  LET der_len == 0
      r == asn1_bit_der(m, img, bit_len, 1, der_len)
  IN  [der |-> r.der, ret |-> r.der_len]

\* int der_len = 0; asn1_length_der(len, der, &der_len); return der_len;
\* The parameter is unsigned long: the argument is converted on the way in.
node_asn1_length_der(m, len, d) ==
  LET der_len == 0
      r == asn1_length_der(m, ToULong(len), d, der_len)
  IN  [der |-> r.der, ret |-> r.der_len]

\* int der_len = 0; asn1_octet_der(str, str_len, der, &der_len); return der_len;
node_asn1_octet_der(m, img, str_len, d) ==
  LET der_len == 0
      r == asn1_octet_der(m, img, str_len, d, der_len)
  IN  [der |-> r.der, ret |-> r.der_len]

\* int der_len = 0; asn1_bit_der(str, bit_len, der, &der_len); return der_len;
node_asn1_bit_der(m, img, bit_len, d) ==
  LET der_len == 0
      r == asn1_bit_der(m, img, bit_len, d, der_len)
  IN  [der |-> r.der, ret |-> r.der_len]

\* One exported call, by name.
Invoke(m, c) ==
  CASE c.op = "length" -> node_asn1_length_der(m, c.n, c.buf)
    [] c.op = "octet"  -> node_asn1_octet_der(m, c.img, c.n, c.buf)
    [] c.op = "bit"    -> node_asn1_bit_der(m, c.img, c.n, c.buf)

\* ------------------------------------------------------------------ inputs
\* A call: the export, its integer argument n (len, str_len or bit_len), the
\* memory image at str with the size of the caller's buffer there, and der.
NoImg == <<>>

Prefixes == [1..MaxStrLen -> ByteSamples]
Images == {Image(p) : p \in Prefixes}
Sizes == (0..MaxStrLen) \cup {127, 128, LongLen}
Lens == (-2..MaxLen) \cup {65535, 65536, 16777215, 16777216, 2147483647, -2147483647}
StrLens == (-1..MaxStrLen) \cup {127, 128, LongLen}
BitLens == (-1..(8 * MaxStrLen)) \cup {1015, 1016, 1017, 8 * LongLen}

LengthCalls ==
  {[op |-> "length", n |-> n, img |-> NoImg, size |-> 0, buf |-> b] :
     n \in Lens, b \in Bufs}
OctetCalls ==
  {[op |-> "octet", n |-> n, img |-> i, size |-> z, buf |-> b] :
     n \in StrLens, i \in Images, z \in Sizes, b \in Bufs}
BitCalls ==
  {[op |-> "bit", n |-> n, img |-> i, size |-> z, buf |-> b] :
     n \in BitLens, i \in Images, z \in Sizes, b \in Bufs}
AllCalls == LengthCalls \cup OctetCalls \cup BitCalls

\* The small input set of the multi-call and the threaded specifications.
ImgA == <<240, 1>>
ImgB == <<255, 2>>
SeqCalls ==
  {[op |-> "length", n |-> n, img |-> NoImg, size |-> 0, buf |-> b] :
     n \in {-1, 200}, b \in Bufs}
  \cup {[op |-> "octet", n |-> n, img |-> ImgA, size |-> 1, buf |-> b] :
     n \in {-1, 1}, b \in Bufs}
  \cup {[op |-> "bit", n |-> 4, img |-> ImgA, size |-> 1, buf |-> b] : b \in Bufs}
  \cup {[op |-> "bit", n |-> 8, img |-> i, size |-> 0, buf |-> b] :
     i \in {ImgA, ImgB}, b \in Bufs}
ConcCalls ==
  {[op |-> "length", n |-> 200, img |-> NoImg, size |-> 0, buf |-> b] : b \in Bufs}
  \cup {[op |-> "octet", n |-> n, img |-> ImgA, size |-> 1, buf |-> b] :
     n \in {-1, 1}, b \in Bufs}
  \cup {[op |-> "bit", n |-> 4, img |-> ImgA, size |-> 1, buf |-> b] : b \in Bufs}

\* ------------------------------------------------------------------- state
VARIABLES
  call,    \* the sequential caller's current call
  der,     \* the output buffers: der[b][i], b \in Bufs, i \in 1..DerSize
  ret,     \* the value the current call returned (0 before it returns)
  pc,      \* "ready": about to call; "done": the call has returned
  held,    \* held[b]: length returned by the latest call given buffer b
  mark,    \* <<>> or <<an earlier call with its result>>
  ncalls,  \* calls made so far, the current one included
  tpc,     \* thread t: "idle", "running" (inside an export) or "returned"
  targ,    \* thread t's call
  tk,      \* thread t: bytes of der stored so far
  tret,    \* thread t: value returned
  tout,    \* thread t: the first tret[t] bytes of its der buffer at return
  raced    \* thread t ran while another thread ran on the same der buffer

vars == <<call, der, ret, pc, held, mark, ncalls, tpc, targ, tk, tret, tout, raced>>
seqvars == <<call, der, ret, pc, held, mark, ncalls>>
thrvars == <<tpc, targ, tk, tret, tout, raced>>

\* What a caller reads back: the returned length and that many bytes of der.
Output(m, d, n) == SubSeq(m[d], 1, n)

InitMem(n) == \E j \in JunkSamples : der = [b \in Bufs |-> [i \in 1..n |-> j]]
InitThreads ==
  /\ tpc = [t \in Threads |-> "idle"]
  /\ targ = [t \in Threads |-> CHOOSE c \in SeqCalls : TRUE]
  /\ tk = [t \in Threads |-> 0]
  /\ tret = [t \in Threads |-> 0]
  /\ tout = [t \in Threads |-> <<>>]
  /\ raced = [t \in Threads |-> FALSE]
InitCaller(calls) ==
  /\ call \in calls
  /\ ret = 0
  /\ pc = "ready"
  /\ held = [b \in Bufs |-> 0]
  /\ mark = <<>>
  /\ ncalls = 1

Init == InitMem(DerSize) /\ InitCaller(AllCalls) /\ InitThreads

\* A whole export, from call to return, run by the sequential caller.
Return(r) ==
  /\ der' = r.der
  /\ ret' = r.ret
  /\ pc' = "done"
  /\ held' = [held EXCEPT ![call.buf] = r.ret]
  /\ UNCHANGED <<call, mark, ncalls>>
  /\ UNCHANGED thrvars

CallLength ==
  /\ pc = "ready" /\ call.op = "length"
  /\ Return(node_asn1_length_der(der, call.n, call.buf))

CallOctet ==
  /\ pc = "ready" /\ call.op = "octet"
  /\ Return(node_asn1_octet_der(der, call.img, call.n, call.buf))

CallBit ==
  /\ pc = "ready" /\ call.op = "bit"
  /\ Return(node_asn1_bit_der(der, call.img, call.n, call.buf))

Next == CallLength \/ CallOctet \/ CallBit

Spec == Init /\ [][Next]_vars

\* ------------------------------------------------- a sequence of calls
\* The caller goes on to another call, on a buffer of its choice, and may
\* note one call with its result to compare the later ones with.
NextCall ==
  /\ pc = "done" /\ ncalls < MaxCalls
  /\ call' \in SeqCalls
  /\ pc' = "ready"
  /\ ret' = 0
  /\ ncalls' = ncalls + 1
  /\ mark' \in IF mark # <<>> THEN {mark}
              ELSE {<<>>, <<[call |-> call, ret |-> ret, out |-> Output(der, call.buf, ret)]>>}
  /\ UNCHANGED <<der, held>>
  /\ UNCHANGED thrvars

InitSeq == InitMem(SeqDerSize) /\ InitCaller(SeqCalls) /\ InitThreads

NextSeq == CallLength \/ CallOctet \/ CallBit \/ NextCall

SpecSeq == InitSeq /\ [][NextSeq]_vars

\* ------------------------------------------------------ concurrent calls
\* The stores one export makes, in the order it makes them, as <<buffer,
\* index, byte>>: read off a run of the export on memory holding no byte.
Blank == [b \in Bufs |-> [i \in 1..SeqDerSize |-> -1]]

RECURSIVE InOrder(_)
InOrder(cells) ==
  IF cells = {} THEN <<>>
  ELSE LET lo == CHOOSE x \in cells :
                   \A y \in cells : x[1] < y[1] \/ (x[1] = y[1] /\ x[2] <= y[2])
       IN  <<lo>> \o InOrder(cells \ {lo})

Writes(c) ==
  LET r == Invoke(Blank, c)
  IN  InOrder({<<b, i, r.der[b][i]>> : b \in Bufs, i \in 1..SeqDerSize} \
              {<<b, i, -1>> : b \in Bufs, i \in 1..SeqDerSize})

\* The stores and the return value of each call a thread may make.
Stores == [c \in ConcCalls |-> Writes(c)]
Returns == [c \in ConcCalls |-> Invoke(Blank, c).ret]

\* Each thread makes one call.  Inside the export the stores to der happen
\* one byte at a time; der_len and the arguments are the thread's own.  Two
\* threads handed the same der store to the same bytes.
TCall(t) ==
  /\ tpc[t] = "idle"
  /\ \E c \in ConcCalls :
       /\ targ' = [targ EXCEPT ![t] = c]
       /\ raced' = [u \in Threads |->
            \/ raced[u]
            \/ u = t /\ \E w \in Threads : tpc[w] = "running" /\ targ[w].buf = c.buf
            \/ u # t /\ tpc[u] = "running" /\ targ[u].buf = c.buf]
  /\ tpc' = [tpc EXCEPT ![t] = "running"]
  /\ UNCHANGED <<tk, tret, tout>>
  /\ UNCHANGED seqvars

TWrite(t) ==
  /\ tpc[t] = "running"
  /\ tk[t] < Len(Stores[targ[t]])
  /\ LET w == Stores[targ[t]][tk[t] + 1]
     IN  der' = [der EXCEPT ![w[1]][w[2]] = w[3]]
  /\ tk' = [tk EXCEPT ![t] = @ + 1]
  /\ UNCHANGED <<tpc, targ, tret, tout, raced>>
  /\ UNCHANGED <<call, ret, pc, held, mark, ncalls>>

TReturn(t) ==
  /\ tpc[t] = "running"
  /\ tk[t] = Len(Stores[targ[t]])
  /\ tret' = [tret EXCEPT ![t] = Returns[targ[t]]]
  /\ tout' = [tout EXCEPT ![t] = Output(der, targ[t].buf, Returns[targ[t]])]
  /\ tpc' = [tpc EXCEPT ![t] = "returned"]
  /\ UNCHANGED <<targ, tk, raced>>
  /\ UNCHANGED seqvars

InitConc == InitMem(SeqDerSize) /\ InitCaller({CHOOSE c \in SeqCalls : TRUE}) /\ InitThreads

NextConc == \E t \in Threads : TCall(t) \/ TWrite(t) \/ TReturn(t)

SpecConc == InitConc /\ [][NextConc]_vars

\* ============================================================ properties
\* What the sequential caller reads back from its current call.
Out == Output(der, call.buf, ret)

\* The caller's byte sequence: the part of the image that is its buffer.
Bits(c) == SubSeq(c.img, 1, c.size)

\* ceil(n / 8), stated by its defining inequalities.
CeilDiv8(n) == CHOOSE c \in 0..n : 8 * c >= n /\ 8 * (c - 1) < n

\* A byte sequence read as a big-endian unsigned integer.
RECURSIVE BigEndian(_)
BigEndian(s) ==
  IF s = <<>> THEN 0 ELSE 256 * BigEndian(SubSeq(s, 1, Len(s) - 1)) + s[Len(s)]

\* C1: for every n in 0..127 (0 included) the length call returns 1 and the
\* single byte written is n.
C1_ShortForm ==
  (pc = "done" /\ call.op = "length" /\ call.n \in 0..127)
    => (ret = 1 /\ Out = <<call.n>>)

C1_Witness ==
  pc = "done" /\ call.op = "length" /\ call.n = 0 /\ ret = 1 /\ Out = <<0>>

\* C2: for every n > 127 the length call writes 0x80 | k and then k bytes
\* that are n in big-endian with a non-zero first byte; 128..255 gives
\* [0x81, n], and from 256 on the k bytes read back as n.
C2_LongForm ==
  (pc = "done" /\ call.op = "length" /\ call.n > 127)
    => LET k == ret - 1
       IN  /\ k >= 1
           /\ Out[1] = 128 + k
           /\ Out[2] # 0
           /\ BigEndian(SubSeq(Out, 2, ret)) = call.n
           /\ (call.n <= 255 => Out = <<129, call.n>>)

C2_Witness ==
  pc = "done" /\ call.op = "length" /\ call.n = 65536 /\ Out = <<131, 1, 0, 0>>

\* C3: for every byte sequence b (empty, or with zero bytes inside) the
\* octet call yields the length encoding of len(b) and then b, unchanged and
\* in order, with no tag byte; it returns the sum of the two lengths; the
\* empty sequence yields the single byte 0x00.
C3_OctetString ==
  (pc = "done" /\ call.op = "octet" /\ call.n = call.size)
    => LET b == Bits(call)
           l == LengthBytes(ToULong(Len(b)))
       IN  /\ ret = Len(l) + Len(b)
           /\ Out = l \o b
           /\ (b = <<>> => Out = <<0>>)

C3_Witness ==
  /\ pc = "done" /\ call.op = "octet" /\ call.n = call.size
  /\ call.size = 128 /\ call.img[1] = 0 /\ call.img[2] = 255
  /\ ret = 130 /\ Out[1] = 129 /\ Out[2] = 128 /\ Out[3] = 0 /\ Out[130] = call.img[128]

\* C4: for every bit_len >= 0 and a buffer of at least ceil(bit_len / 8)
\* bytes the bit call yields the length encoding of byte_count + 1, then the
\* byte unused = 8 * byte_count - bit_len (in 0..7), then the first
\* byte_count bytes of the buffer; bit_len = 0 yields [0x01, 0x00].
C4_BitString ==
  (pc = "done" /\ call.op = "bit" /\ call.n >= 0 /\ call.size >= CeilDiv8(call.n))
    => LET byte_count == CeilDiv8(call.n)
           unused == 8 * byte_count - call.n
       IN  /\ unused \in 0..7
           /\ Out = LengthBytes(ToULong(byte_count + 1)) \o <<unused>>
                      \o SubSeq(Bits(call), 1, byte_count)
           /\ ret = Len(LengthBytes(ToULong(byte_count + 1))) + 1 + byte_count
           /\ (call.n = 0 => Out = <<1, 0>>)

C4_Witness ==
  /\ pc = "done" /\ call.op = "bit" /\ call.n = 4 /\ call.size = 1
  /\ call.img[1] = 240 /\ Out = <<2, 4, 240>>

\* C5: the bit call fails with an error outcome, one no successful call
\* produces, whenever bit_len is negative or the buffer holds fewer than
\* ceil(bit_len / 8) bytes.  The int return value is the only outcome of the
\* export, and 0 the only value no encoding has.
C5_InvalidArgument ==
  (pc = "done" /\ call.op = "bit"
     /\ (call.n < 0 \/ call.size < CeilDiv8(call.n)))
    => ret = 0

\* An argument the contract rules out: a negative length, a negative bit
\* length, a buffer shorter than the bit length needs.
Invalid(c) ==
  \/ c.op \in {"length", "octet"} /\ c.n < 0
  \/ c.op = "bit" /\ (c.n < 0 \/ c.size < CeilDiv8(c.n))

\* C6: a call with an invalid argument fails with no partial output: no byte
\* of der is changed and no encoded bytes are reported.
C6_NoPartialOutput ==
  [][(pc = "ready" /\ Invalid(call)) => (ret' = 0 /\ der' = der)]_vars

Solo(c) ==
  LET r == Invoke([b \in Bufs |-> [i \in 1..SeqDerSize |-> 0]], c)
  IN  [ret |-> r.ret, out |-> Output(r.der, c.buf, r.ret)]

SameInput(c, e) == c.op = e.op /\ c.n = e.n /\ Bits(c) = Bits(e)

\* C9: two calls with identical inputs, anywhere in a sequence of calls,
\* return the same length and byte-identical output, whatever the earlier
\* calls were and whatever the der buffer held.
C9_Deterministic ==
  (pc = "done" /\ mark # <<>> /\ SameInput(mark[1].call, call))
    => (ret = mark[1].ret /\ Out = mark[1].out)

\* The library call declines: it writes nothing and leaves der_len alone.
Declines(c) == c.op \in {"octet", "bit"} /\ c.n < 0

\* The bytes the library call writes to der when it does not decline.
Written(c) ==
  CASE c.op = "length" -> LengthBytes(ToULong(c.n))
    [] c.op = "octet"  -> OctetBytes(c.img, c.n)
    [] c.op = "bit"    -> BitBytes(c.img, c.n)

\* C10: each wrapper returns the number of bytes the library call wrote to
\* der, changes no byte of der at or beyond that index (nor any other
\* buffer) and leaves str as it was; when the library call declines, the
\* wrapper returns 0, which no encoding has as its length.
C10_WrapperFrame ==
  [][pc = "ready" =>
       /\ call' = call
       /\ \A b \in Bufs : \A i \in 1..Len(der[b]) :
            (b # call.buf \/ i > ret') => der'[b][i] = der[b][i]
       /\ Declines(call) => ret' = 0
       /\ ~Declines(call) =>
            (ret' >= 1 /\ ret' = Len(Written(call))
               /\ Output(der', call.buf, ret') = Written(call))]_vars

C10_Witness ==
  /\ pc = "done" /\ call.op = "octet" /\ call.n = -1 /\ ret = 0
  /\ \E j \in JunkSamples : \A i \in 1..DerSize : der[call.buf][i] = j

====
